---- MODULE Spec2Model ----
(***************************************************************************)
(* Model of the cs-modbus-cli command line tool (mb.js).                   *)
(*                                                                         *)
(* The program is one script: its top level resolves the configuration,    *)
(* picks a mode (help, list, show, dispatch), builds the connection and    *)
(* the MODBUS master; from then on it is driven by events (connected,      *)
(* completion callbacks, setImmediate).  process.exit ends the run.        *)
(***************************************************************************)
EXTENDS Integers, Sequences, FiniteSets, TLC

(***************************************************************************)
(* JavaScript values.  Every value is a record [t, n, s]:                  *)
(*   t = "undef"            undefined                                      *)
(*   t = "bool", n \in 0..1 false / true                                   *)
(*   t = "num",  n          an integer number                              *)
(*   t = "nan"              the number NaN                                 *)
(*   t = "str",  s          a string, as its sequence of characters        *)
(***************************************************************************)
Undef == [t |-> "undef", n |-> 0, s |-> <<>>]

JsNaN == [t |-> "nan", n |-> 0, s |-> <<>>]

JsTrue == [t |-> "bool", n |-> 1, s |-> <<>>]

JsFalse == [t |-> "bool", n |-> 0, s |-> <<>>]

Num(i) == [t |-> "num", n |-> i, s |-> <<>>]

Str(chars) == [t |-> "str", n |-> 0, s |-> chars]

\* ToBoolean: undefined, false, 0, NaN and "" are falsy, the rest is truthy.
Truthy(v) ==
    CASE v.t = "undef" -> FALSE
      [] v.t = "bool" -> v.n = 1
      [] v.t = "num" -> v.n # 0
      [] v.t = "nan" -> FALSE
      [] OTHER -> v.s # <<>>

\* a || b
JsOr(a, b) == IF Truthy(a) THEN a ELSE b

DecDigits == <<"0", "1", "2", "3", "4", "5", "6", "7", "8", "9">>

HexDigits == DecDigits \o <<"a", "b", "c", "d", "e", "f">>

UpperHex == <<"A", "B", "C", "D", "E", "F">>

\* The value of character c as a digit, or -1 when it is none.
DigitVal(c) ==
    IF \E i \in 1..16 : HexDigits[i] = c
    THEN (CHOOSE i \in 1..16 : HexDigits[i] = c) - 1
    ELSE IF \E i \in 1..6 : UpperHex[i] = c
         THEN (CHOOSE i \in 1..6 : UpperHex[i] = c) + 9
         ELSE -1

InRadix(d, radix) == d >= 0 /\ d < radix

IsDigit(c, radix) == InRadix(DigitVal(c), radix)

\* The length of the longest prefix of chars made of digits of the radix.
RECURSIVE DigitPrefixLen(_, _)
DigitPrefixLen(chars, radix) ==
    IF chars # <<>> /\ IsDigit(Head(chars), radix)
    THEN 1 + DigitPrefixLen(Tail(chars), radix)
    ELSE 0

\* The number written by a sequence of digits of the radix.
RECURSIVE DigitsValue(_, _, _)
DigitsValue(chars, radix, acc) ==
    IF chars = <<>>
    THEN acc
    ELSE DigitsValue(Tail(chars), radix, acc * radix + DigitVal(Head(chars)))

HasHexPrefix(chars) ==
    Len(chars) >= 2 /\ chars[1] = "0" /\ chars[2] \in {"x", "X"}

\* The number written by the first k characters, NaN when k = 0.
PrefixNumber(body, radix, k) ==
    IF k = 0 THEN JsNaN ELSE Num(DigitsValue(SubSeq(body, 1, k), radix, 0))

\* The longest prefix of digits is read, no digit at all gives NaN.
ParseDigits(body, radix) == PrefixNumber(body, radix, DigitPrefixLen(body, radix))

\* parseInt of an unsigned string without a radix argument: a 0x prefix selects
\* base 16.
ParseUnsigned(chars) ==
    IF HasHexPrefix(chars)
    THEN ParseDigits(SubSeq(chars, 3, Len(chars)), 16)
    ELSE ParseDigits(chars, 10)

Negate(r) == IF r.t = "num" THEN Num(0 - r.n) ELSE r

\* parseInt(string): an optional sign, then ParseUnsigned.
ParseIntChars(chars) ==
    IF chars # <<>> /\ Head(chars) \in {"-", "+"}
    THEN IF Head(chars) = "-"
         THEN Negate(ParseUnsigned(Tail(chars)))
         ELSE ParseUnsigned(Tail(chars))
    ELSE ParseUnsigned(chars)

\* parseInt(v): v is converted to a string first; an integer number prints as
\* its digits and so parses to itself.
ParseInt(v) ==
    CASE v.t = "str" -> ParseIntChars(v.s)
      [] v.t = "num" -> v
      [] OTHER -> JsNaN


\* parseInt(string, 16): an optional 0x prefix is skipped, hex digits are read.
ParseIntHex(chars) ==
    ParseDigits(IF HasHexPrefix(chars) THEN SubSeq(chars, 3, Len(chars)) ELSE chars, 16)

\* The decimal digits of a natural number.
RECURSIVE NatToChars(_)
NatToChars(i) ==
    IF i < 10 THEN <<DecDigits[i + 1]>> ELSE NatToChars(i \div 10) \o <<DecDigits[(i % 10) + 1]>>

\* v.toString()
ToChars(v) ==
    CASE v.t = "str" -> v.s
      [] v.t = "num" -> IF v.n < 0 THEN <<"-">> \o NatToChars(0 - v.n) ELSE NatToChars(v.n)
      [] v.t = "nan" -> <<"NaN">>
      [] v.t = "bool" -> IF v.n = 1 THEN <<"true">> ELSE <<"false">>
      [] OTHER -> <<"undefined">>

\* string.substring(from, to), positions counted from 0.
Substring(chars, from, to) ==
    SubSeq(chars, from + 1, IF to < Len(chars) THEN to ELSE Len(chars))

\* string.substring(from), positions counted from 0.
SubstringFrom(chars, from) == SubSeq(chars, from + 1, Len(chars))

\* s.substring(0, 1) === '0x': one character compared with two.
CharsStartWith0x(chars) == Substring(chars, 0, 1) = <<"0", "x">>

\* The mutant of ParseToken: the token is read as decimal digits.
ParseTokenDecimal(chars) == ParseDigits(chars, 10)

\* The mutant of ParseToken: a token that is no number parses to 0.
ParseTokenZero(chars) ==
    IF ParseIntChars(chars).t = "num" THEN ParseIntChars(chars) ELSE Num(0)

\* The parse shared by parseNumber, parseValue and argsToWordBuf (lines
\* 252-256, 264-268, 327-331) on the string form of the token.
ParseToken(chars) ==
    IF CharsStartWith0x(chars)
    THEN ParseIntHex(SubstringFrom(chars, 2))
    ELSE ParseIntChars(chars)

(***************************************************************************)
(* The command line as minimist hands it over.  A positional token that    *)
(* reads as a number (0x hex digits, or decimal digits) arrives as that    *)
(* number, every other token as a string.  Strings are sequences of        *)
(* symbols: single characters where the program looks inside the string,   *)
(* and whole words (read, coil, COM1) where it only compares or forwards   *)
(* them.                                                                   *)
(***************************************************************************)
AllDigits(chars, radix) == chars # <<>> /\ DigitPrefixLen(chars, radix) = Len(chars)

IsNumber(chars) ==
    \/ HasHexPrefix(chars) /\ AllDigits(SubSeq(chars, 3, Len(chars)), 16)
    \/ AllDigits(chars, 10)

Positional(chars) == IF IsNumber(chars) THEN ParseIntChars(chars) ELSE Str(chars)

\* args._[i], positions counted from 0; undefined past the end.
At(pos, i) == IF i < Len(pos) THEN pos[i + 1] ELSE Undef

parseNumber(s, def) == IF s.t = "undef" THEN def ELSE ParseToken(ToChars(s))

parseValue(str) == ParseToken(ToChars(str))

\* string.split(':')
RECURSIVE Split(_, _)
Split(chars, cur) ==
    IF chars = <<>>
    THEN <<cur>>
    ELSE IF Head(chars) = ":"
         THEN <<cur>> \o Split(Tail(chars), <<>>)
         ELSE Split(Tail(chars), Append(cur, Head(chars)))

CharsHaveColon(chars) == \E i \in 1..Len(chars) : chars[i] = ":"

\* args[i].toString().indexOf(':') > -1
HasColon(v) == CharsHaveColon(ToChars(v))

\* x < lo || x > hi on numbers: every comparison with NaN is false.
OutOfRange(x, lo, hi) == x.t = "num" /\ (x.n < lo \/ x.n > hi)

InRange(x, lo, hi) == x.t = "num" /\ x.n >= lo /\ x.n <= hi

\* Buffer.from(values): each element is stored modulo 256, NaN as 0.
ToUint8(x) == IF x.t = "num" THEN x.n % 256 ELSE 0

BufferFrom(values) == [i \in 1..Len(values) |-> ToUint8(values[i])]

\* The mutant of Repeat: the count of a run is ignored.
RepeatOnce(x, count) == <<x>>

Repeat(x, count) == [i \in 1..count |-> x]

(***************************************************************************)
(* argsToByteBuf and argsToWordBuf.  exit(1) inside them ends the process, *)
(* so the result says whether the loop ran to its end (fatal = FALSE) and  *)
(* then holds the buffer.                                                  *)
(***************************************************************************)
ByteLo == 0

ByteHi == 255

WordHi == 65535

CountLimit == 65536

\* The mutant of RunOf: the value of a run is not tested.
RunOfAnyValue(value, count) ==
    IF count.t = "num" /\ count.n > 0 /\ count.n < CountLimit
    THEN Repeat(value, count.n)
    ELSE <<>>

\* The bytes one value:count token adds (lines 288-297): none unless both
\* parts are in range.
RunOf(value, count) ==
    IF /\ value.t = "num" /\ value.n >= ByteLo /\ value.n <= ByteHi
       /\ count.t = "num" /\ count.n > 0 /\ count.n < CountLimit
    THEN Repeat(value, count.n)
    ELSE <<>>

RunOfTokens(tokens) == RunOf(parseValue(Str(tokens[1])), parseValue(Str(tokens[2])))

RunBytes(tok) == RunOfTokens(Split(ToChars(tok), <<>>))

\* The mutant of ByteInvalid: the bound of a word is used for a byte.
ByteInvalidWordBound(number) == OutOfRange(number, ByteLo, WordHi)

\* The test of line 300 on a plain byte token.
ByteInvalid(number) == OutOfRange(number, ByteLo, ByteHi)

\* One round of the loop of argsToByteBuf on a token: the values with what
\* the token adds, or fatal when exit(1) is called.
ByteStepPlain(values, number) ==
    IF ByteInvalid(number)
    THEN [fatal |-> TRUE, vals |-> <<>>]
    ELSE [fatal |-> FALSE, vals |-> Append(values, number)]

ByteStep(values, tok) ==
    IF HasColon(tok)
    THEN [fatal |-> FALSE, vals |-> values \o RunBytes(tok)]
    ELSE ByteStepPlain(values, parseValue(tok))

RECURSIVE ByteLoop(_, _, _)
ByteLoop(args, i, acc) ==
    IF acc.fatal
    THEN [fatal |-> TRUE, buf |-> <<>>]
    ELSE IF i >= Len(args)
         THEN [fatal |-> FALSE, buf |-> BufferFrom(acc.vals)]
         ELSE ByteLoop(args, i + 1, ByteStep(acc.vals, At(args, i)))

argsToByteBuf(args, start) == ByteLoop(args, start, [fatal |-> FALSE, vals |-> <<>>])

\* The test of line 333 on a word token.
WordInvalid(number) == OutOfRange(number, ByteLo, WordHi)

\* builder.pushUInt16(number) of the h5.buffers library with a NaN: the
\* library either throws or stores 0 (lib says which).
WordsSoFar(words) == [fatal |-> FALSE, thrown |-> FALSE, words |-> words]

\* One round of the loop of argsToWordBuf on the number a token parses to.
WordStep(words, number, lib) ==
    IF WordInvalid(number)
    THEN [fatal |-> TRUE, thrown |-> FALSE, words |-> <<>>]
    ELSE IF number.t # "num"
         THEN IF lib = "throws"
              THEN [fatal |-> FALSE, thrown |-> TRUE, words |-> <<>>]
              ELSE WordsSoFar(Append(words, 0))
         ELSE WordsSoFar(Append(words, number.n))

RECURSIVE WordLoop(_, _, _, _)
WordLoop(args, i, acc, lib) ==
    IF acc.fatal \/ acc.thrown \/ i >= Len(args)
    THEN acc
    ELSE WordLoop(args, i + 1, WordStep(acc.words, ParseToken(ToChars(At(args, i))), lib), lib)

argsToWordBuf(args, start, lib) == WordLoop(args, start, WordsSoFar(<<>>), lib)

\* buffer.length of the buffer of 16-bit words: two bytes per word.
WordBufLength(words) == 2 * Len(words)

(***************************************************************************)
(* doAction (lines 424-585) as a function of the command line: what one    *)
(* run of it does.  kind = "call" is one call of the named operation of    *)
(* the master, kind = "exit" is exit(code) before any call, kind = "throw" *)
(* is an exception of the buffer library that nothing catches.             *)
(***************************************************************************)
W(word) == Str(<<word>>)

NoBuf == <<>>

Call(op, a1, a2, buf) ==
    [kind |-> "call", code |-> 0, op |-> op, a1 |-> a1, a2 |-> a2, buf |-> buf]

ExitWith(c) ==
    [kind |-> "exit", code |-> c, op |-> "none", a1 |-> Undef, a2 |-> Undef, buf |-> NoBuf]

Thrown ==
    [kind |-> "throw", code |-> 1, op |-> "none", a1 |-> Undef, a2 |-> Undef, buf |-> NoBuf]

\* The defaults of lines 442-530.
DefAddress == 0

DefQuantity == 1

DefFifoMax == 250

DefCoilValue == 1

DefFifoValue == 0

DefLength == 1

\* The call of a byte-buffer operation, unless argsToByteBuf exits.
CallWithBuf(op, a1, r) == IF r.fatal THEN ExitWith(1) ELSE Call(op, a1, Undef, r.buf)

WithBytes(op, a1, pos, start) == CallWithBuf(op, a1, argsToByteBuf(pos, start))

\* The mutant of OrDefault: the default is used only for a missing argument.
OrDefaultIfMissing(x, def) == IF x.t = "undef" THEN Num(def) ELSE x

\* case 'read' (lines 435-496)
\* x || def for an argument of a command (lines 442-530).
OrDefault(x, def) == JsOr(x, Num(def))

ReadOps ==
    [coil |-> "readCoils", discrete |-> "readDiscreteInputs",
     holding |-> "readHoldingRegisters", input |-> "readInputRegisters"]

ReadOfType(type, pos) ==
    CASE type \in {W("coil"), W("discrete"), W("holding"), W("input")} ->
                Call(ReadOps[type.s[1]], OrDefault(At(pos, 2), DefAddress),
                     OrDefault(At(pos, 3), DefQuantity), NoBuf)
         [] type = W("slave") -> Call("reportSlaveId", Undef, Undef, NoBuf)
         [] type = W("fifo") ->
                Call("readFifo8", OrDefault(At(pos, 2), DefAddress),
                     OrDefault(At(pos, 3), DefFifoMax), NoBuf)
         [] type = W("object") ->
                Call("readObject", OrDefault(At(pos, 2), DefAddress), Undef, NoBuf)
         [] type = W("memory") ->
                Call("readMemory", parseNumber(At(pos, 2), Num(DefAddress)),
                     parseNumber(At(pos, 3), Num(DefLength)), NoBuf)
         [] OTHER -> ExitWith(1)

DoRead(pos) == ReadOfType(JsOr(At(pos, 1), W("unknown")), pos)

\* The mutant of TooFewValues: fewer than two words.
FewerThanTwoWords(words) == Len(words) < 2

\* case 'holding' of 'write' (lines 509-521)
\* values.length < 2 (line 514) on the buffer of words.
TooFewValues(words) == WordBufLength(words) < 2

WriteHoldingWith(address, values) ==
    IF values.fatal
    THEN ExitWith(1)
    ELSE IF values.thrown
         THEN Thrown
         ELSE IF TooFewValues(values.words)
              THEN ExitWith(1)
              ELSE Call("writeMultipleRegisters", address, Undef, values.words)

DoWriteHolding(pos, lib) ==
    WriteHoldingWith(OrDefault(At(pos, 2), DefAddress), argsToWordBuf(pos, 3, lib))

WriteOfType(type, pos, lib) ==
    CASE type = W("coil") ->
                Call("writeSingleCoil", OrDefault(At(pos, 2), DefAddress),
                     OrDefault(At(pos, 3), DefCoilValue), NoBuf)
         [] type = W("holding") -> DoWriteHolding(pos, lib)
         [] type = W("fifo") ->
                Call("writeFifo8", OrDefault(At(pos, 2), DefAddress),
                     OrDefault(At(pos, 3), DefFifoValue), NoBuf)
         [] type \in {W("object"), W("memory")} ->
                WithBytes(IF type = W("object") THEN "writeObject" ELSE "writeMemory",
                          IF type = W("object")
                          THEN OrDefault(At(pos, 2), DefAddress)
                          ELSE parseNumber(At(pos, 2), Num(DefAddress)),
                          pos, 3)
         [] OTHER -> ExitWith(1)

\* case 'write' (lines 498-552)
DoWrite(pos, lib) == WriteOfType(JsOr(At(pos, 1), W("unknown")), pos, lib)

\* args.length < 2 (lines 557, 570): args is the option object of minimist,
\* whose length is the value of an option named length, undefined otherwise.
LengthBelow2(len) == len.t = "num" /\ len.n < 2

\* cases 'command' and 'generic' (lines 554-578)
DoCommand(op, pos, len) ==
    IF LengthBelow2(len) THEN ExitWith(1) ELSE WithBytes(op, At(pos, 1), pos, 2)

KnownActions == {W("read"), W("write"), W("command"), W("generic")}

OfAction(action, pos, len, lib) ==
    CASE action = W("read") -> DoRead(pos)
      [] action = W("write") -> DoWrite(pos, lib)
      [] action \in {W("command"), W("generic")} ->
             DoCommand(IF action = W("command") THEN "command" ELSE "sendGeneric", pos, len)
      [] OTHER -> ExitWith(1)

doActionOutcome(pos, len, lib) == OfAction(At(pos, 0), pos, len, lib)

(***************************************************************************)
(* Configuration (lines 28-187).  The configuration object is modelled by  *)
(* the seven values the command line and the environment can override,     *)
(* and by canJ1939, the member can.j1939 that the built-in defaults lack.  *)
(***************************************************************************)
DefBaudRate == 115200

DefCanRate == 250000

DefCanId == 254

DefUnit == 1

CONFIG_DEFAULTS ==
    [port |-> W("use_--port_to_select_port"),
     baud |-> Num(DefBaudRate),
     unit |-> Num(DefUnit),
     transport |-> W("rtu"),
     connection |-> W("serial"),
     canrate |-> Num(DefCanRate),
     canid |-> Num(DefCanId),
     canJ1939 |-> Undef]

Keys == {"port", "baud", "unit", "transport", "connection", "canrate", "canid"}

\* The mutant of LoadConfig: --default is ignored.
LoadConfigIgnoringDefault(opt, f) == IF f.state = "ok" THEN f.cfg ELSE CONFIG_DEFAULTS

\* The mutant of LoadConfig: what the file holds is used unread.
LoadConfigNoFallback(opt, f) == IF Truthy(opt.default) THEN CONFIG_DEFAULTS ELSE f.cfg

\* Lines 97-106: the persisted file is used unless --default is given or
\* reading it fails.
LoadConfig(opt, f) ==
    IF Truthy(opt.default)
    THEN CONFIG_DEFAULTS
    ELSE IF f.state = "ok" THEN f.cfg ELSE CONFIG_DEFAULTS

\* The command line value of a key: the || chain over its option names.
CliValue(opt, k) ==
    CASE k = "port" -> opt.port
      [] k = "unit" -> JsOr(opt.slave, opt.unit)
      [] k = "baud" -> JsOr(JsOr(opt.baudrate, opt.baud), opt.baudRate)
      [] k = "transport" -> opt.transport
      [] k = "connection" -> opt.connection
      [] k = "canrate" -> opt.canrate
      [] OTHER -> opt.canid

\* The mutant of Override: the configuration is looked at before the
\* environment.
OverrideEnvLast(opt, e, cfg) ==
    [k \in DOMAIN cfg |->
        IF k \in Keys THEN JsOr(JsOr(CliValue(opt, k), cfg[k]), e[k]) ELSE cfg[k]]

\* Lines 127-159: command line || environment || configuration.
Override(opt, e, cfg) ==
    [k \in DOMAIN cfg |->
        IF k \in Keys THEN JsOr(JsOr(CliValue(opt, k), e[k]), cfg[k]) ELSE cfg[k]]

HexPair(chars, i) == IsDigit(chars[i], 16) /\ IsDigit(chars[i + 1], 16)

\* macRE.test(name) (line 175): six pairs of hex digits separated by : or -.
MacTest(v) ==
    LET chars == ToChars(v)
    IN /\ Len(chars) = 17
       /\ \A g \in 0..5 : HexPair(chars, 3 * g + 1)
       /\ \A g \in 1..5 : chars[3 * g] \in {":", "-"}

\* The mutant of MacRule: the rule is applied in list mode too.
MacRuleInListToo(opt, cfg) ==
    IF Truthy(cfg.port) /\ MacTest(cfg.port)
    THEN [cfg EXCEPT !.transport = W("ip"), !.connection = W("ble")]
    ELSE cfg

\* Lines 177-187: a port that is a hardware address selects Bluetooth, unless
\* the ports are to be listed.
MacRule(opt, cfg) ==
    IF ~Truthy(opt.l) /\ Truthy(cfg.port) /\ MacTest(cfg.port)
    THEN [cfg EXCEPT !.transport = W("ip"), !.connection = W("ble")]
    ELSE cfg

\* The configuration after the top-level code up to line 187.
Resolve(opt, e, f) == MacRule(opt, Override(opt, e, LoadConfig(opt, f)))

\* What --save writes (lines 165-171): the configuration as it is before the
\* hardware address rule.
SavedConfig(opt, e, f) == Override(opt, e, LoadConfig(opt, f))

(***************************************************************************)
(* The state of one run of the program.                                    *)
(***************************************************************************)
VARIABLES
    argv,        \* the command line: pos = args._, opt = the options
    env,         \* process.env, the MODBUS_ variables by key
    file,        \* the persisted defaults file
    pc,          \* "start", "running", "exited", "ended", "crashed", "killed"
    exitCode,    \* the exit code of the process, -1 while it runs
    config,      \* the configuration object
    saved,       \* what --save wrote
    port,        \* the connection object: its kind and state
    ble,         \* the listeners on the Bluetooth controller
    listing,     \* the pending enumeration of list mode
    master,      \* "none", "created", "destroyed"
    nMasters,    \* how many masters were created
    onConnected, \* the once('connected') listener is registered
    nConnected,  \* how many connected notifications the master emitted
    startTime,   \* how many times startTime was set
    immediates,  \* pending setImmediate(doAction)
    inflight,    \* operations whose completion callback has not fired
    nCalls,      \* operations invoked on the master
    lastCall,    \* the last of them
    nDone,       \* completion callbacks fired
    nOk,         \* of them, without error
    csvLines,    \* lines written by output for --out=csv
    last         \* the handler that ran last

inputs == <<argv, env, file>>

conn == <<port, ble, listing>>

mast == <<master, nMasters, onConnected, nConnected, startTime>>

disp == <<immediates, inflight, nCalls, lastCall, nDone, nOk, csvLines>>

vars == <<argv, env, file, pc, exitCode, config, saved, port, ble, listing, master,
          nMasters, onConnected, nConnected, startTime, immediates, inflight,
          nCalls, lastCall, nDone, nOk, csvLines, last>>

Alive == pc \in {"start", "running"}

NoPort == [kind |-> "none", st |-> "none", rate |-> Undef, addr |-> Undef]

NoBle ==
    [stateOnce |-> FALSE, discoverOnce |-> FALSE, discoverOn |-> FALSE, scanning |-> FALSE,
     hw |-> "unknown"]

NoSave == [done |-> FALSE, cfg |-> CONFIG_DEFAULTS]

Handler(name, err) == [h |-> name, err |-> err]

\* The mutant of Mode: --show does not keep the dispatch branch from running.
ModeShowFallsThrough(opt) ==
    IF Truthy(opt.h) THEN "help"
    ELSE IF Truthy(opt.l) THEN "list"
    ELSE "dispatch"

(***************************************************************************)
(* The top level of the script (lines 97-187, 345-420, 587-910).  It runs  *)
(* once, from the first line to the last, unless process.exit or an        *)
(* exception ends it.                                                      *)
(***************************************************************************)
Mode(opt) ==
    IF Truthy(opt.h) THEN "help"
    ELSE IF Truthy(opt.l) THEN "list"
    ELSE IF Truthy(opt.show) THEN "show"
    ELSE "dispatch"

\* Lines 165-171.
SaveStep(opt, e, f) ==
    IF Truthy(opt.save) THEN [done |-> TRUE, cfg |-> SavedConfig(opt, e, f)] ELSE NoSave

\* The mutant of ActionKnown: the action is not looked at before the
\* connection is built.
ActionKnownAlways(pos) == TRUE

\* Line 662.
ActionKnown(pos) == At(pos, 0) \in KnownActions

\* The connection kinds the dispatch branch of the top level handles
\* (lines 732-909).
Kind(cfg) ==
    CASE cfg.connection = W("serial") -> "serial"
      [] cfg.connection = W("websocket") -> "websocket"
      [] cfg.connection = W("ble") -> "ble"
      [] cfg.connection = W("can-usb-com") -> "can-usb-com"
      [] cfg.connection = W("can") -> "can"
      [] OTHER -> "other"

\* config.can.j1939.preferredAddress = ... (line 886) throws when the
\* configuration has no can.j1939 member.
CanSetupThrows(cfg) == ~Truthy(cfg.canJ1939)

\* The mutant of ToGeneric: the connection kind is left as it is.
NotRewritten(cfg) == cfg

\* config.master.transport.connection.type = 'generic' (lines 863, 893).
ToGeneric(cfg) == [cfg EXCEPT !.connection = W("generic")]

\* A connection object that is not a CAN adapter.
PortOf(kind, st) == [kind |-> kind, st |-> st, rate |-> Undef, addr |-> Undef]

\* The CAN adapter with the bus rate and the preferred address it is given
\* (lines 854-860, 885-890).
CanPort(kind, cfg) == [kind |-> kind, st |-> "opening", rate |-> cfg.canrate, addr |-> cfg.canid]

\* The mutant of Connect: the master is created before the connection
\* object of a serial port is built.
ConnectMasterFirst(cfg) ==
    [pc |-> "running", code |-> -1, created |-> TRUE, cfg |-> cfg,
     port |-> NoPort, stateOnce |-> FALSE]

\* What the dispatch branch leaves behind for a configuration and a known
\* action: whether createMaster ran, the connection object, the rewritten
\* configuration and how the script ended.
Connect(cfg) ==
    CASE Kind(cfg) \in {"serial", "websocket"} ->
              [pc |-> "running", code |-> -1, created |-> TRUE, cfg |-> cfg,
               port |-> PortOf(Kind(cfg), "opening"), stateOnce |-> FALSE]
         [] Kind(cfg) = "ble" ->
              [pc |-> "running", code |-> -1, created |-> FALSE, cfg |-> cfg,
               port |-> PortOf("ble", "none"), stateOnce |-> TRUE]
         [] Kind(cfg) = "can-usb-com" ->
              [pc |-> "running", code |-> -1, created |-> TRUE, cfg |-> ToGeneric(cfg),
               port |-> CanPort("can-usb-com", cfg), stateOnce |-> FALSE]
         [] Kind(cfg) = "can" ->
              IF CanSetupThrows(cfg)
              THEN [pc |-> "crashed", code |-> 1, created |-> FALSE, cfg |-> cfg,
                    port |-> NoPort, stateOnce |-> FALSE]
              ELSE [pc |-> "running", code |-> -1, created |-> TRUE, cfg |-> ToGeneric(cfg),
                    port |-> CanPort("can", cfg), stateOnce |-> FALSE]
         [] OTHER ->
              [pc |-> "ended", code |-> 0, created |-> FALSE, cfg |-> cfg,
               port |-> NoPort, stateOnce |-> FALSE]

\* fs.writeFileSync throws (line 169): nothing catches it.
StartSaveFails ==
    /\ pc = "start"
    /\ Truthy(argv.opt.save)
    /\ pc' = "crashed"
    /\ exitCode' = 1
    /\ config' = SavedConfig(argv.opt, env, file)
    /\ last' = Handler("top", TRUE)
    /\ UNCHANGED <<inputs, saved, conn, mast, disp>>

\* -h: the help text, then process.exit(0) (lines 345-420).
StartHelp ==
    /\ pc = "start"
    /\ Mode(argv.opt) = "help"
    /\ pc' = "exited"
    /\ exitCode' = 0
    /\ config' = Resolve(argv.opt, env, file)
    /\ saved' = SaveStep(argv.opt, env, file)
    /\ last' = Handler("top", FALSE)
    /\ UNCHANGED <<inputs, conn, mast, disp>>

\* --show: the configuration is printed and the script ends (lines 655-656).
StartShow ==
    /\ pc = "start"
    /\ Mode(argv.opt) = "show"
    /\ pc' = "ended"
    /\ exitCode' = 0
    /\ config' = Resolve(argv.opt, env, file)
    /\ saved' = SaveStep(argv.opt, env, file)
    /\ last' = Handler("top", FALSE)
    /\ UNCHANGED <<inputs, conn, mast, disp>>

\* -l: the enumeration of the connection kind is started (lines 588-653); a
\* kind without one leaves nothing pending and the script ends.
StartList ==
    /\ pc = "start"
    /\ Mode(argv.opt) = "list"
    /\ LET cfg == Resolve(argv.opt, env, file)
           kind == Kind(cfg)
       IN /\ config' = cfg
          /\ ble' = [NoBle EXCEPT !.stateOnce = (kind = "ble")]
          /\ port' = IF kind = "ble" THEN PortOf("ble", "none") ELSE NoPort
          /\ listing' = CASE kind \in {"serial", "can-usb-com"} -> "serial"
                          [] kind = "can" -> "can"
                          [] OTHER -> "none"
          /\ pc' = IF kind = "other" \/ kind = "websocket" THEN "ended" ELSE "running"
          /\ exitCode' = IF kind = "other" \/ kind = "websocket" THEN 0 ELSE -1
    /\ saved' = SaveStep(argv.opt, env, file)
    /\ last' = Handler("top", FALSE)
    /\ UNCHANGED <<inputs, mast, disp>>

\* exit(1) of line 664: the action is none of read, write, command, generic.
\* No master exists yet, master.destroy() throws and the exception is dropped.
StartUnknownAction ==
    /\ pc = "start"
    /\ Mode(argv.opt) = "dispatch"
    /\ ~ActionKnown(argv.pos)
    /\ pc' = "exited"
    /\ exitCode' = 1
    /\ config' = Resolve(argv.opt, env, file)
    /\ saved' = SaveStep(argv.opt, env, file)
    /\ last' = Handler("top", TRUE)
    /\ UNCHANGED <<inputs, conn, mast, disp>>

\* The dispatch branch with a known action (lines 667-909).
StartDispatch ==
    /\ pc = "start"
    /\ Mode(argv.opt) = "dispatch"
    /\ ActionKnown(argv.pos)
    /\ LET c == Connect(Resolve(argv.opt, env, file))
       IN /\ pc' = c.pc
          /\ exitCode' = c.code
          /\ config' = c.cfg
          /\ port' = c.port
          /\ ble' = [NoBle EXCEPT !.stateOnce = c.stateOnce]
          /\ master' = IF c.created THEN "created" ELSE master
          /\ nMasters' = IF c.created THEN nMasters + 1 ELSE nMasters
          /\ onConnected' = c.created
          /\ last' = Handler("top", c.pc = "crashed")
    /\ saved' = SaveStep(argv.opt, env, file)
    /\ UNCHANGED <<inputs, listing, nConnected, startTime, disp>>

(***************************************************************************)
(* exit, doAction and output as steps of the run.                          *)
(***************************************************************************)
MaxConnected == 2

MaxCompletions == 3

\* The mutant of ExitCodeOf: every exit reports a failure.
ExitCodeAlwaysOne(code) == 1

\* exit(code) (lines 199-204): master.destroy() is tried, then the process
\* exits with the code.
ExitCodeOf(code) == code

ExitProc(code) ==
    /\ pc' = "exited"
    /\ exitCode' = ExitCodeOf(code)
    /\ master' = IF master = "created" THEN "destroyed" ELSE master

\* An exception nothing catches ends the process with code 1; exit is not run.
Crash ==
    /\ pc' = "crashed"
    /\ exitCode' = 1
    /\ UNCHANGED master

\* The arguments the master is known to take: numbers.  With anything else the
\* call may throw instead of starting a transaction.
Plausible(o) == o.a1.t \in {"num", "undef"} /\ o.a2.t \in {"num", "undef"}

\* One run of doAction (lines 424-585).
Apply(o, rejects) ==
    CASE o.kind = "exit" ->
           /\ ExitProc(o.code)
           /\ UNCHANGED <<inflight, nCalls, lastCall>>
      [] o.kind = "throw" ->
           /\ Crash
           /\ UNCHANGED <<inflight, nCalls, lastCall>>
      [] OTHER ->
           /\ nCalls' = nCalls + 1
           /\ lastCall' = o
           /\ IF rejects /\ ~Plausible(o)
              THEN Crash /\ UNCHANGED inflight
              ELSE /\ inflight' = inflight + 1
                   /\ UNCHANGED <<pc, exitCode, master>>

\* The mutant of ConfigAfterDoAction: doAction puts the unit back to the
\* built-in default.
ConfigResetByDoAction(cfg) == [cfg EXCEPT !.unit = Num(DefUnit), !.port = W("reset")]

\* doAction reads args and calls the master (lines 424-585): it assigns no
\* field of the configuration.
ConfigAfterDoAction(cfg) == cfg

DoAction(lib, rejects) ==
    /\ Apply(doActionOutcome(argv.pos, argv.opt.length, lib), rejects)
    /\ config' = ConfigAfterDoAction(config)

Libs == {"throws", "stores"}

\* The mutant of ListenerAfterOnce: the listener was added with on().
ListenerAfterOn(l) == l

\* master.once('connected', ...) (line 920): the listener is removed when it
\* has run.
ListenerAfterOnce(l) == FALSE

\* The once('connected') listener of createMaster (lines 920-928).
MasterConnected ==
    /\ pc = "running"
    /\ master = "created"
    /\ port.st = "open"
    /\ onConnected
    /\ nConnected < MaxConnected
    /\ nConnected' = nConnected + 1
    /\ onConnected' = ListenerAfterOnce(onConnected)
    /\ startTime' = startTime + 1
    /\ \E lib \in Libs, rejects \in BOOLEAN : DoAction(lib, rejects)
    /\ last' = Handler("connected", FALSE)
    /\ UNCHANGED <<inputs, saved, conn, nMasters, immediates, nDone, nOk, csvLines>>

\* A later connected notification: the listener is gone.
MasterConnectedAgain ==
    /\ pc = "running"
    /\ master = "created"
    /\ port.st = "open"
    /\ ~onConnected
    /\ nConnected < MaxConnected
    /\ nConnected' = nConnected + 1
    /\ last' = Handler("connected", FALSE)
    /\ UNCHANGED <<inputs, pc, exitCode, config, saved, conn, master, nMasters,
                   onConnected, startTime, disp>>

\* setImmediate(doAction) of line 228 comes due.
DoImmediate ==
    /\ pc = "running"
    /\ immediates > 0
    /\ immediates' = immediates - 1
    /\ \E lib \in Libs, rejects \in BOOLEAN : DoAction(lib, rejects)
    /\ last' = Handler("doAction", FALSE)
    /\ UNCHANGED <<inputs, saved, conn, nMasters, onConnected, nConnected,
                   startTime, nDone, nOk, csvLines>>

\* The mutant of CsvRequested: the line is written whatever --out says.
CsvAlways(opt) == TRUE

\* 'csv' === args.out (line 219)
CsvRequested(opt) == opt.out = W("csv")

\* args.loop (line 227)
LoopRequested(opt) == Truthy(opt.loop)

\* The mutant of output: a completion without error ends the process in
\* loop mode too.
outputExitsInLoop(err, opt) ==
    [exit |-> TRUE, code |-> IF err THEN 1 ELSE 0, csv |-> ~err /\ CsvRequested(opt),
     again |-> FALSE]

\* The mutant of output: the error is not looked at.
outputIgnoringError(err, opt) ==
    [exit |-> ~LoopRequested(opt), code |-> 0, csv |-> CsvRequested(opt),
     again |-> LoopRequested(opt)]

\* output(err, response) (lines 211-233): what it decides.
output(err, opt) ==
    IF err
    THEN [exit |-> TRUE, code |-> 1, csv |-> FALSE, again |-> FALSE]
    ELSE [exit |-> ~LoopRequested(opt), code |-> 0, csv |-> CsvRequested(opt),
          again |-> LoopRequested(opt)]

\* The master calls the completion callback of an operation, with or without
\* an error.
Complete ==
    /\ pc = "running"
    /\ inflight > 0
    /\ nDone < MaxCompletions
    /\ \E err \in BOOLEAN :
          LET r == output(err, argv.opt)
          IN /\ inflight' = inflight - 1
             /\ nDone' = nDone + 1
             /\ nOk' = IF err THEN nOk ELSE nOk + 1
             /\ csvLines' = IF r.csv THEN csvLines + 1 ELSE csvLines
             /\ immediates' = IF r.again THEN immediates + 1 ELSE immediates
             /\ IF r.exit THEN ExitProc(r.code) ELSE UNCHANGED <<pc, exitCode, master>>
             /\ last' = Handler("output", err)
    /\ UNCHANGED <<inputs, config, saved, conn, nMasters, onConnected, nConnected,
                   startTime, nCalls, lastCall>>

(***************************************************************************)
(* The connection objects and what they report.                            *)
(***************************************************************************)
\* The connection comes up: the port opens, the socket connects, the
\* Bluetooth device connects.
ConnOpens ==
    /\ pc = "running"
    /\ port.st = "opening"
    /\ port' = [port EXCEPT !.st = "open"]
    /\ last' = Handler("open", FALSE)
    /\ UNCHANGED <<inputs, pc, exitCode, config, saved, ble, listing, mast, disp>>

\* The kinds whose open failure reaches exit(1) (lines 750-755, 875-879,
\* 904-908).
ExitsOnOpenFailure == {"serial", "can-usb-com", "can"}

\* Opening fails for serial, can-usb-com or can: exit(1).
OpenFails ==
    /\ pc = "running"
    /\ port.st = "opening"
    /\ port.kind \in ExitsOnOpenFailure
    /\ port' = [port EXCEPT !.st = "failed"]
    /\ ExitProc(1)
    /\ last' = Handler("open", TRUE)
    /\ UNCHANGED <<inputs, config, saved, ble, listing, nMasters, onConnected,
                   nConnected, startTime, disp>>

\* Connecting fails for websocket or ble: the handlers only log (lines
\* 759-781, 832-836).
ConnectFailsLogged ==
    /\ pc = "running"
    /\ port.st = "opening"
    /\ port.kind \notin ExitsOnOpenFailure
    /\ port' = [port EXCEPT !.st = "failed"]
    /\ last' = Handler("open", TRUE)
    /\ UNCHANGED <<inputs, pc, exitCode, config, saved, ble, listing, mast, disp>>

BleStates == {"poweredOn", "poweredOff"}

\* The mutant of StateListenerAfterOnce: the listener was added with on().
StateListenerAfterOn(l) == l

\* port.once('stateChange', ...) (lines 603, 809): the listener is removed
\* when it has run.
StateListenerAfterOnce(l) == FALSE

\* The listener of stateChange has run for the state.
AfterStateListener(b, state, mode) ==
    [b EXCEPT !.stateOnce = StateListenerAfterOnce(b.stateOnce),
              !.discoverOnce = IF state = "poweredOn" THEN mode = "dispatch" ELSE b.discoverOnce,
              !.discoverOn = IF state = "poweredOn" THEN mode = "list" ELSE b.discoverOn,
              !.scanning = IF state = "poweredOn" THEN TRUE ELSE b.scanning,
              !.hw = state]

\* The Bluetooth controller reports its state: the once('stateChange')
\* listener (lines 603-619, 809-848) runs for the first report only.
BleStateChange ==
    /\ pc = "running"
    /\ port.kind = "ble"
    /\ \E state \in BleStates :
          ble' = IF ble.stateOnce
                 THEN AfterStateListener(ble, state, Mode(argv.opt))
                 ELSE [ble EXCEPT !.hw = state]
    /\ last' = Handler("stateChange", FALSE)
    /\ UNCHANGED <<inputs, pc, exitCode, config, saved, port, listing, mast, disp>>

\* A peripheral is discovered in list mode: it is printed (lines 610-612).
BleDiscoverList ==
    /\ pc = "running"
    /\ ble.scanning
    /\ ble.discoverOn
    /\ last' = Handler("discover", FALSE)
    /\ UNCHANGED <<inputs, pc, exitCode, config, saved, conn, mast, disp>>

\* The first peripheral is discovered in dispatch mode (lines 814-841): the
\* scan stops, the configuration is rewritten, the device starts to connect
\* and the master is created.
BleDiscover ==
    /\ pc = "running"
    /\ ble.scanning
    /\ ble.discoverOnce
    /\ ble' = [ble EXCEPT !.discoverOnce = FALSE, !.scanning = FALSE]
    /\ config' = [ToGeneric(config) EXCEPT !.transport = W("ip")]
    /\ port' = [port EXCEPT !.st = "opening"]
    /\ master' = "created"
    /\ nMasters' = nMasters + 1
    /\ onConnected' = TRUE
    /\ last' = Handler("discover", FALSE)
    /\ UNCHANGED <<inputs, pc, exitCode, saved, listing, nConnected, startTime, disp>>

\* SerialPortFactory.list calls back (lines 622-641): process.exit(0), with
\* or without an error.
ListSerialDone ==
    /\ pc = "running"
    /\ listing = "serial"
    /\ listing' = "none"
    /\ pc' = "exited"
    /\ exitCode' = 0
    /\ \E err \in BOOLEAN : last' = Handler("list", err)
    /\ UNCHANGED <<inputs, config, saved, port, ble, mast, disp>>

\* What Node does with a promise that is rejected and has no handler: it
\* ends the process with code 1, or, before version 15, only warns.
RejectionOutcomes == {"crashed", "ended"}

\* Can.list() settles (lines 646-652).  The promise has a then and no catch:
\* fulfilled, the ports are printed, nothing is left to run and the process
\* ends; a rejection is handled by nobody.
ListCanDone ==
    /\ pc = "running"
    /\ listing = "can"
    /\ listing' = "none"
    /\ \E err \in BOOLEAN :
          /\ pc' \in IF err THEN RejectionOutcomes ELSE {"ended"}
          /\ last' = Handler("list", err)
    /\ exitCode' = IF pc' = "crashed" THEN 1 ELSE 0
    /\ UNCHANGED <<inputs, config, saved, port, ble, mast, disp>>

\* The events the logging listeners of createMaster are registered for
\* (lines 931-1014): errors of the port, events of the connection, events of
\* a transaction, sniffed messages of the transport.
ConnectionTaps == {"port#error", "open", "close", "error", "write", "data", "sniff"}

TransactionTaps == {"request", "timeout", "transaction#error", "response", "complete", "cancel"}

\* The mutant of TapExits: the exit(0) of line 996 is not a comment.
TapExitsOnComplete(ev) == ev = "complete"

\* No logging listener calls exit: the one call, in the complete listener
\* (line 996), is commented out.
TapExits(ev) == FALSE

\* The events that can arrive: those of a transaction need an operation in
\* flight.
TapsDue(n) == IF n > 0 THEN ConnectionTaps \cup TransactionTaps ELSE ConnectionTaps

\* A logging listener runs (lines 931-1014): it writes to the log.  The
\* listeners of a transaction run while an operation is in flight.
LogTap ==
    /\ pc = "running"
    /\ master = "created"
    /\ \E exits \in {TapExits(ev) : ev \in TapsDue(inflight)} :
          IF exits THEN ExitProc(0) ELSE UNCHANGED <<pc, exitCode, master>>
    /\ last' = Handler("tap", FALSE)
    /\ UNCHANGED <<inputs, config, saved, conn, nMasters, onConnected, nConnected,
                   startTime, immediates, inflight, nCalls, lastCall, nDone, nOk, csvLines>>

\* The process is interrupted (SIGINT).  The script installs no handler for
\* the signal: the process is ended at once, and exit (lines 199-204) is
\* not run.
Interrupt ==
    /\ pc = "running"
    /\ pc' = "killed"
    /\ exitCode' = 128 + 2
    /\ last' = Handler("interrupt", FALSE)
    /\ UNCHANGED <<inputs, config, saved, conn, mast, disp>>

(***************************************************************************)
(* The runs that are checked.  Three families of inputs start a run: one   *)
(* varies the configuration layers of one key at a time, one varies the    *)
(* command, one varies the mode and the connection kind.                   *)
(***************************************************************************)
MaxArgs == 3

NoOpts ==
    [port |-> Undef, slave |-> Undef, unit |-> Undef, baudrate |-> Undef, baud |-> Undef,
     baudRate |-> Undef, transport |-> Undef, connection |-> Undef, canrate |-> Undef,
     canid |-> Undef, h |-> Undef, l |-> Undef, save |-> Undef, show |-> Undef,
     default |-> Undef, loop |-> Undef, out |-> Undef, length |-> Undef]

NoEnv == [k \in Keys |-> Undef]

MacPort == Str(<<"A", "A", ":", "B", "B", ":", "C", "C", ":", "D", "D", ":", "E", "E", ":", "F", "F">>)

Flag == {Undef, JsTrue}

FileAbsent == [state |-> "absent", cfg |-> CONFIG_DEFAULTS]

\* A file that does not parse: what it holds is never read.
FileCorrupt ==
    [state |-> "corrupt",
     cfg |-> [CONFIG_DEFAULTS EXCEPT !.port = W("COM9"), !.unit = Num(9),
                                     !.connection = W("websocket")]]

FileSaved ==
    [state |-> "ok",
     cfg |-> [port |-> W("COM3"), baud |-> Num(9600), unit |-> Num(7),
              transport |-> W("ascii"), connection |-> W("can"),
              canrate |-> Num(500000), canid |-> Num(33), canJ1939 |-> JsTrue]]

\* The option names of a key.
OptNames(k) ==
    CASE k = "unit" -> {"slave", "unit"}
      [] k = "baud" -> {"baudrate", "baud", "baudRate"}
      [] OTHER -> {k}

\* What minimist can hand over for an option: absent, a bare flag, a number,
\* an empty value, a string.
CliVals(k) ==
    CASE k = "port" -> {Undef, JsTrue, Str(<<>>), Num(0), W("COM1"), MacPort}
      [] k = "transport" -> {Undef, JsTrue, Str(<<>>), W("j1939")}
      [] k = "connection" -> {Undef, JsTrue, Str(<<>>), W("websocket")}
      [] k = "baud" -> {Undef, Num(0), Num(19200)}
      [] OTHER -> {Undef, JsTrue, Num(0), Num(12)}

\* What the environment can hold for a key: unset, empty, a string.
EnvVals(k) ==
    IF k = "port" THEN {Undef, Str(<<>>), W("COM7"), MacPort}
    ELSE {Undef, Str(<<>>), W("fromenv")}

ReadSlave == <<W("read"), W("slave")>>

\* The options that give key k on the command line, with or without a
\* hardware address as the port, and the flags -l, --save, --default.
ConfigOpts(k) ==
    {[n \in DOMAIN NoOpts |->
        IF n \in OptNames(k) THEN f[n]
        ELSE IF n = "port" THEN bg
        ELSE IF n = "l" THEN fl[1]
        ELSE IF n = "save" THEN fl[2]
        ELSE IF n = "default" THEN fl[3]
        ELSE Undef] :
      f \in [OptNames(k) -> CliVals(k)],
      bg \in IF k = "port" THEN {Undef} ELSE {Undef, MacPort},
      fl \in Flag \X Flag \X Flag}

InitConfig ==
    \E k \in Keys :
      /\ argv \in {[pos |-> ReadSlave, opt |-> o] : o \in ConfigOpts(k)}
      /\ env \in {[NoEnv EXCEPT ![k] = v] : v \in EnvVals(k)}
      /\ file \in {FileAbsent, FileCorrupt, FileSaved}

ArgTokens ==
    {<<"0">>, <<"5">>, <<"0", "x", "4", "0", "0">>, <<"2", "5", "6">>,
     <<"6", "5", "5", "3", "6">>, <<"abc">>, <<"0", "x", "4", "1", ":", "3">>,
     <<"3", "0", "0", ":", "2">>}

ArgLists == UNION {[1..n -> ArgTokens] : n \in 0..MaxArgs}

TypeWords ==
    {"coil", "discrete", "holding", "input", "slave", "fifo", "object", "memory", "bogus"}

RawCommands ==
    {<<<<a>>, <<t>>>> \o args : a \in {"read", "write"}, t \in TypeWords, args \in ArgLists}
      \cup {<<<<a>>>> \o args : a \in {"command", "generic"}, args \in ArgLists}
      \cup {<<>>, <<<<"read">>>>, <<<<"write">>>>, <<<<"bogus">>, <<"coil">>>>}

FromRaw(raw) == [i \in 1..Len(raw) |-> Positional(raw[i])]

InitCommand ==
    /\ argv \in {[pos |-> FromRaw(raw), opt |-> NoOpts] : raw \in RawCommands}
    /\ env = NoEnv
    /\ file = FileAbsent

LifeCommands ==
    {<<>>,
     <<<<"bogus">>>>,
     <<<<"read">>, <<"bogus">>>>,
     <<<<"read">>, <<"holding">>, <<"0">>, <<"3">>>>,
     <<<<"write">>, <<"memory">>, <<"0", "x", "4", "0", "0">>,
       <<"0", "x", "5", "5">>, <<"0", "x", "A", "A">>>>,
     <<<<"write">>, <<"object">>, <<"1">>, <<"2", "5", "6">>>>}

LifeOpts ==
    {[NoOpts EXCEPT !.connection = c, !.port = p, !.h = fl[1], !.l = fl[2], !.show = fl[3],
                    !.loop = fl[4], !.save = fl[5], !.out = out] :
      c \in {Undef, W("websocket"), W("ble"), W("can-usb-com"), W("can"), W("tcp")},
      p \in {Undef, MacPort},
      fl \in Flag \X Flag \X Flag \X Flag \X Flag,
      out \in {Undef, W("csv")}}

InitLife ==
    /\ argv \in {[pos |-> FromRaw(raw), opt |-> o] : raw \in LifeCommands, o \in LifeOpts}
    /\ env = NoEnv
    /\ file \in {FileAbsent, FileSaved}

InitState ==
    /\ pc = "start"
    /\ exitCode = -1
    /\ config = CONFIG_DEFAULTS
    /\ saved = NoSave
    /\ port = NoPort
    /\ ble = NoBle
    /\ listing = "none"
    /\ master = "none"
    /\ nMasters = 0
    /\ onConnected = FALSE
    /\ nConnected = 0
    /\ startTime = 0
    /\ immediates = 0
    /\ inflight = 0
    /\ nCalls = 0
    /\ lastCall = ExitWith(0)
    /\ nDone = 0
    /\ nOk = 0
    /\ csvLines = 0
    /\ last = Handler("none", FALSE)

Init == (InitConfig \/ InitCommand \/ InitLife) /\ InitState

Next ==
    \/ StartSaveFails
    \/ StartHelp
    \/ StartShow
    \/ StartList
    \/ StartUnknownAction
    \/ StartDispatch
    \/ ConnOpens
    \/ OpenFails
    \/ ConnectFailsLogged
    \/ BleStateChange
    \/ BleDiscoverList
    \/ BleDiscover
    \/ MasterConnected
    \/ MasterConnectedAgain
    \/ DoImmediate
    \/ Complete
    \/ ListSerialDone
    \/ ListCanDone
    \/ LogTap
    \/ Interrupt

Spec == Init /\ [][Next]_vars

(***************************************************************************)
(* parseNumber and argsToByteBuf on their own.  The arguments are tokens   *)
(* as a caller hands them over: strings, or the numbers minimist makes of  *)
(* them.                                                                   *)
(***************************************************************************)
MaxUnitArgs == 2

UnitChars ==
    {<<"0">>, <<"4", "2">>, <<"2", "5", "5">>, <<"2", "5", "6">>,
     <<"0", "x", "1", "A">>, <<"0", "x", "F", "F">>, <<"0", "x", "4", "1", ":", "3">>,
     <<"3", "0", "0", ":", "2">>, <<"5", ":", "0">>, <<"abc">>, <<"abc", ":", "2">>}

UnitTokens == {Str(c) : c \in UnitChars} \cup {Positional(c) : c \in UnitChars}

UnitDefaults == {0, 7}

InitUnit ==
    /\ argv \in {[pos |-> a, opt |-> NoOpts] :
                   a \in UNION {[1..n -> UnitTokens] : n \in 0..MaxUnitArgs}}
    /\ env = NoEnv
    /\ file = FileAbsent
    /\ InitState

\* parseNumber(args[0], def) is called.
UnitParseNumber ==
    /\ pc = "start"
    /\ last.h = "none"
    /\ \E def \in UnitDefaults :
          lastCall' = Call("parseNumber", parseNumber(At(argv.pos, 0), Num(def)), Num(def), NoBuf)
    /\ last' = Handler("parseNumber", FALSE)
    /\ UNCHANGED <<inputs, pc, exitCode, config, saved, conn, mast, immediates, inflight,
                   nCalls, nDone, nOk, csvLines>>

\* argsToByteBuf(args, 0) is called: a buffer, or exit(1).
UnitArgsToByteBuf ==
    /\ pc = "start"
    /\ last.h = "none"
    /\ LET r == argsToByteBuf(argv.pos, 0)
       IN /\ lastCall' = CallWithBuf("argsToByteBuf", Undef, r)
          /\ pc' = IF r.fatal THEN "exited" ELSE pc
          /\ exitCode' = IF r.fatal THEN 1 ELSE exitCode
          /\ last' = Handler("argsToByteBuf", r.fatal)
    /\ UNCHANGED <<inputs, config, saved, conn, mast, immediates, inflight, nCalls, nDone,
                   nOk, csvLines>>

NextUnit == UnitParseNumber \/ UnitArgsToByteBuf

UnitSpec == InitUnit /\ [][NextUnit]_vars

\* The runs in which the master completes every operation it was given: the
\* hypothesis of the statements about termination.
InitFair == InitLife /\ InitState

FairSpec == InitFair /\ [][Next]_vars /\ WF_vars(Complete)

(***************************************************************************)
(* The statements of the specification about the command line, checked on  *)
(* the runs above.                                                         *)
(***************************************************************************)
\* A value given for an option: a number or a non-empty string.
IsGiven(v) == v.t = "num" \/ (v.t = "str" /\ v.s # <<>>)

\* Option n is the only option of key k on the command line, and has a value.
GivenOnce(opt, k, n) ==
    /\ IsGiven(opt[n])
    /\ \A m \in OptNames(k) \ {n} : opt[m] = Undef

\* The connection kind and the transport may be rewritten for a Bluetooth
\* or a generic connection; such a key is not held against the command line.
Derived(cfg, k) ==
    k \in {"connection", "transport"} /\ cfg.connection \in {W("ble"), W("generic")}

TopLevelDone == last.h = "top"

\* C1: when the top-level code has run, every key that has a value on the
\* command line holds that value in the effective configuration, whatever
\* the environment, the persisted file and the built-in defaults say.
C1_CliWins ==
    TopLevelDone =>
        \A k \in Keys : \A n \in OptNames(k) :
            GivenOnce(argv.opt, k, n) => (config[k] = argv.opt[n] \/ Derived(config, k))

\* The operations whose second argument is args._[3] with a default.
SecondDefaulted ==
    {"readCoils", "readDiscreteInputs", "readHoldingRegisters", "readInputRegisters",
     "readFifo8", "writeSingleCoil", "writeFifo8"}

\* The operations whose first argument is args._[2] with a default.
FirstDefaulted == SecondDefaulted \cup {"readObject", "writeObject", "writeMultipleRegisters"}

Supplied(pos, i) == At(pos, i).t # "undef"

\* C2: an operation that was invoked got the address, quantity or value the
\* command line supplied, a supplied 0 included.
C2_SuppliedUnchanged ==
    nCalls > 0 =>
        /\ (lastCall.op \in FirstDefaulted /\ Supplied(argv.pos, 2))
               => lastCall.a1 = At(argv.pos, 2)
        /\ (lastCall.op \in SecondDefaulted /\ Supplied(argv.pos, 3))
               => lastCall.a2 = At(argv.pos, 3)

DispatchMode == Mode(argv.opt) = "dispatch"

\* doAction has run at least once: the first connected notification runs it.
Dispatched == nConnected > 0

Terminated == ~Alive

\* The command was refused: nothing was invoked on the master, and once
\* doAction has run the process is gone with exit code 1.
Rejected == nCalls = 0 /\ (Dispatched => (Terminated /\ exitCode = 1))

IsWriteHolding(pos) == At(pos, 0) = W("write") /\ At(pos, 1) = W("holding")

IsWord(v) == v.t = "num" /\ v.n >= 0 /\ v.n <= 65535

IsByte(v) == v.t = "num" /\ v.n >= 0 /\ v.n <= 255

TwoArgTypes == {W("coil"), W("discrete"), W("holding"), W("input"), W("fifo"), W("memory")}

\* The positions of args._ the command reads as numbers.
ArgPositions(pos) ==
    CASE At(pos, 0) \in {W("command"), W("generic")} -> 1..(Len(pos) - 1)
      [] At(pos, 0) = W("read") /\ At(pos, 1) \in TwoArgTypes -> {2, 3}
      [] At(pos, 0) = W("read") /\ At(pos, 1) = W("object") -> {2}
      [] At(pos, 0) = W("write") /\ At(pos, 1) \in {W("coil"), W("fifo")} -> {2, 3}
      [] At(pos, 0) = W("write") /\ At(pos, 1) \in {W("holding"), W("object"), W("memory")} ->
             2..(Len(pos) - 1)
      [] OTHER -> {}

\* A token parseInt makes nothing of.
Unparsable(v) == v.t = "str" /\ ParseInt(v).t = "nan"

\* C4: a command with a numeric argument that does not parse is refused.
C4_UnparsableRejected ==
    (DispatchMode /\ \E i \in ArgPositions(argv.pos) : Unparsable(At(argv.pos, i)))
        => Rejected

\* The positions of the byte tokens and of the word tokens of a command.
BytePositions(pos) ==
    CASE At(pos, 0) \in {W("command"), W("generic")} -> 2..(Len(pos) - 1)
      [] At(pos, 0) = W("write") /\ At(pos, 1) \in {W("object"), W("memory")} ->
             3..(Len(pos) - 1)
      [] OTHER -> {}

WordPositions(pos) == IF IsWriteHolding(pos) THEN 3..(Len(pos) - 1) ELSE {}

\* The token is a number beyond hi.
Beyond(v, hi) == ParseInt(v).t = "num" /\ (ParseInt(v).n < 0 \/ ParseInt(v).n > hi)

ByteOut(pos) == \E i \in BytePositions(pos) : ~HasColon(At(pos, i)) /\ Beyond(At(pos, i), 255)

WordOut(pos) == \E i \in WordPositions(pos) : Beyond(At(pos, i), 65535)

\* C5: a command with a plain byte token outside 0..255, or a word token
\* outside 0..65535, is refused: exit code 1 and nothing invoked.
C5_OutOfRangeRejected ==
    (DispatchMode /\ (ByteOut(argv.pos) \/ WordOut(argv.pos))) => Rejected

C5_Witness ==
    /\ DispatchMode
    /\ ByteOut(argv.pos)
    /\ Dispatched
    /\ pc = "exited"
    /\ exitCode = 1
    /\ nCalls = 0

\* The argument at position i, or the default when the position is empty.
ArgOr(pos, i, def) == IF Supplied(pos, i) THEN At(pos, i) ELSE Num(def)

\* The numbers of the tokens from position start on.
NumbersFrom(pos, start) == [j \in 1..(Len(pos) - start) |-> At(pos, start + j - 1).n]

AllFrom(pos, start, hi) ==
    \A i \in start..(Len(pos) - 1) : At(pos, i).t = "num" /\ At(pos, i).n >= 0 /\ At(pos, i).n <= hi

ReadTypes ==
    {W("coil"), W("discrete"), W("holding"), W("input"), W("slave"), W("fifo"),
     W("object"), W("memory")}

WriteTypes == {W("coil"), W("holding"), W("fifo"), W("object"), W("memory")}

\* A recognized action and type whose arguments are all numbers in range.
ValidCommand(pos) ==
    CASE At(pos, 0) = W("read") -> At(pos, 1) \in ReadTypes /\ AllFrom(pos, 2, 65535)
      [] At(pos, 0) = W("write") /\ At(pos, 1) \in {W("coil"), W("fifo")} ->
             AllFrom(pos, 2, 65535)
      [] IsWriteHolding(pos) -> Len(pos) >= 5 /\ AllFrom(pos, 2, 65535)
      [] At(pos, 0) = W("write") /\ At(pos, 1) \in {W("object"), W("memory")} ->
             Len(pos) >= 3 /\ IsWord(At(pos, 2)) /\ AllFrom(pos, 3, 255)
      [] At(pos, 0) \in {W("command"), W("generic")} ->
             Len(pos) >= 2 /\ IsWord(At(pos, 1)) /\ AllFrom(pos, 2, 255)
      [] OTHER -> FALSE

\* The one call the command stands for.
ExpectedRead(type, pos) ==
    CASE type = W("slave") -> Call("reportSlaveId", Undef, Undef, NoBuf)
      [] type = W("fifo") -> Call("readFifo8", ArgOr(pos, 2, 0), ArgOr(pos, 3, 250), NoBuf)
      [] type = W("object") -> Call("readObject", ArgOr(pos, 2, 0), Undef, NoBuf)
      [] type = W("memory") -> Call("readMemory", ArgOr(pos, 2, 0), ArgOr(pos, 3, 1), NoBuf)
      [] OTHER -> Call(ReadOps[type.s[1]], ArgOr(pos, 2, 0), ArgOr(pos, 3, 1), NoBuf)

ExpectedWrite(type, pos) ==
    CASE type = W("coil") -> Call("writeSingleCoil", ArgOr(pos, 2, 0), ArgOr(pos, 3, 1), NoBuf)
      [] type = W("fifo") -> Call("writeFifo8", ArgOr(pos, 2, 0), ArgOr(pos, 3, 0), NoBuf)
      [] type = W("holding") ->
             Call("writeMultipleRegisters", At(pos, 2), Undef, NumbersFrom(pos, 3))
      [] type = W("object") -> Call("writeObject", At(pos, 2), Undef, NumbersFrom(pos, 3))
      [] OTHER -> Call("writeMemory", At(pos, 2), Undef, NumbersFrom(pos, 3))

ExpectedCall(pos) ==
    CASE At(pos, 0) = W("read") -> ExpectedRead(At(pos, 1), pos)
      [] At(pos, 0) = W("write") -> ExpectedWrite(At(pos, 1), pos)
      [] At(pos, 0) = W("command") -> Call("command", At(pos, 1), Undef, NumbersFrom(pos, 2))
      [] OTHER -> Call("sendGeneric", At(pos, 1), Undef, NumbersFrom(pos, 2))

\* C6: when doAction has run once for a recognized command with valid
\* arguments, exactly one operation was invoked: the one of the action and
\* type, with the arguments of the command line.
C6_OneCallPerDispatch ==
    (/\ DispatchMode
     /\ ValidCommand(argv.pos)
     /\ last.h = "connected"
     /\ nConnected = 1) => (nCalls = 1 /\ lastCall = ExpectedCall(argv.pos))

\* The action, or the type of a read or a write, is none the program knows.
Unrecognized(pos) ==
    \/ At(pos, 0) \notin KnownActions
    \/ At(pos, 0) = W("read") /\ At(pos, 1) \notin ReadTypes
    \/ At(pos, 0) = W("write") /\ At(pos, 1) \notin WriteTypes

\* C7: a command with an unrecognized action or type never has an operation
\* invoked, and the process it started ends with exit code 1.
C7_UnrecognizedRejected ==
    (DispatchMode /\ Unrecognized(argv.pos)) =>
        (nCalls = 0 /\ (Terminated => exitCode = 1))

\* What the completion callback has to leave behind.
C8_ExitCodes ==
    /\ (last.h = "output" /\ last.err) => (pc = "exited" /\ exitCode = 1)
    /\ (last.h = "output" /\ ~last.err /\ ~LoopRequested(argv.opt))
           => (pc = "exited" /\ exitCode = 0)

\* C8: a completion callback with an error ends the process with exit code
\* 1, in loop mode too; one without error ends it with exit code 0 when loop
\* mode is off.  So, when the master completes the operations it is given,
\* a process without loop mode whose master has connected terminates.
C8_CompletionEnds ==
    /\ []C8_ExitCodes
    /\ (Dispatched /\ ~LoopRequested(argv.opt)) ~> Terminated

C8_Witness ==
    /\ last.h = "output"
    /\ last.err
    /\ LoopRequested(argv.opt)
    /\ nOk > 0
    /\ pc = "exited"
    /\ exitCode = 1

\* C9: in loop mode at most one operation is in flight: an invocation starts
\* only when the completion callback of the one before has fired.
C9_OneInFlight ==
    LoopRequested(argv.opt) => (inflight <= 1 /\ nCalls <= nDone + 1)

C9_Witness ==
    /\ LoopRequested(argv.opt)
    /\ nCalls = 3
    /\ nDone = 2
    /\ inflight = 1
    /\ nConnected = 2

\* C10: a process that ran the dispatch and is gone has exit code 0 only if
\* an operation completed without error; gone without one, its exit code
\* is 1.
C10_ExitCodeTellsSuccess ==
    (DispatchMode /\ Terminated) =>
        /\ exitCode = 0 => nOk > 0
        /\ nOk = 0 => exitCode = 1

\* C11: a connection that failed to open leaves no process behind: it has
\* terminated with a non-zero exit code.
C11_OpenFailureEnds ==
    port.st = "failed" => (Terminated /\ exitCode # 0)

\* One of -h, -l, --show is on the command line.
OtherModeRequested ==
    Truthy(argv.opt.h) \/ Truthy(argv.opt.l) \/ Truthy(argv.opt.show)

\* C12: in a run with -h, -l or --show no master is ever created and no
\* operation is ever invoked, whatever the connection kind and the events.
C12_ModesExclusive ==
    OtherModeRequested => (master = "none" /\ nMasters = 0 /\ nCalls = 0 /\ ~onConnected)

C12_Witness ==
    /\ Truthy(argv.opt.l)
    /\ ~Truthy(argv.opt.h)
    /\ ActionKnown(argv.pos)
    /\ config.connection = W("ble")
    /\ last.h = "discover"
    /\ master = "none"

\* --save was given and writing the file threw.
SaveFailed == Truthy(argv.opt.save) /\ ~saved.done /\ pc = "crashed"

\* The configuration of the command line, the environment and the file,
\* before any derived rewrite.
Layered == Override(argv.opt, env, LoadConfig(argv.opt, file))

AddressDigits ==
    {"0", "1", "2", "3", "4", "5", "6", "7", "8", "9", "a", "b", "c", "d", "e", "f",
     "A", "B", "C", "D", "E", "F"}

\* Six pairs of hex digits separated by colons or hyphens.
IsHardwareAddress(v) ==
    /\ v.t = "str"
    /\ Len(v.s) = 17
    /\ \A i \in 1..17 :
          IF i % 3 = 0 THEN v.s[i] \in {":", "-"} ELSE v.s[i] \in AddressDigits

\* C13: when the top-level code has run, a port that is a hardware address
\* has made the connection kind ble and the transport ip unless -l is given,
\* whatever the command line, the environment and the file say about them;
\* with -l the two are left as resolved.
C13_HardwareAddressRule ==
    (TopLevelDone /\ ~SaveFailed) =>
        /\ (IsHardwareAddress(Layered.port) /\ ~Truthy(argv.opt.l)) =>
               (config.connection = W("ble") /\ config.transport = W("ip"))
        /\ Truthy(argv.opt.l) =>
               (config.connection = Layered.connection /\ config.transport = Layered.transport)

C13_Witness ==
    /\ TopLevelDone
    /\ IsHardwareAddress(config.port)
    /\ ~Truthy(argv.opt.l)
    /\ argv.opt.connection = W("websocket")
    /\ config.connection = W("ble")
    /\ config.transport = W("ip")

\* C14: the configuration --save wrote has the derived rewrite in it: with a
\* hardware address as the port, and no -l, it says ble and ip.
C14_SavedIsRewritten ==
    (saved.done /\ IsHardwareAddress(saved.cfg.port) /\ ~Truthy(argv.opt.l)) =>
        (saved.cfg.connection = W("ble") /\ saved.cfg.transport = W("ip"))

\* No option of key k is on the command line.
NoCli(k) == \A n \in OptNames(k) : argv.opt[n] = Undef

\* The environment variable is set and not empty.
EnvSet(v) == v.t = "str" /\ v.s # <<>>

\* The file exists and parses.
FileUsable == file.state = "ok"

\* C15: without --default, a key that has no value on the command line has
\* the value of its environment variable when that is set and not empty,
\* else the value of the persisted file when the file exists and parses,
\* else the built-in default.
C15_EnvThenFileThenBuiltin ==
    (TopLevelDone /\ ~Truthy(argv.opt.default)) =>
        \A k \in Keys :
            NoCli(k) =>
                \/ Derived(config, k)
                \/ config[k] = IF EnvSet(env[k]) THEN env[k]
                               ELSE IF FileUsable THEN file.cfg[k]
                               ELSE CONFIG_DEFAULTS[k]

C15_Witness ==
    /\ TopLevelDone
    /\ ~Truthy(argv.opt.default)
    /\ NoCli("port")
    /\ NoCli("baud")
    /\ env.port = W("COM7")
    /\ FileUsable
    /\ config.port = W("COM7")
    /\ config.baud = Num(9600)

\* The configuration the top-level code arrives at with the built-in
\* defaults as the lowest layer.
OverBuiltins == MacRule(argv.opt, Override(argv.opt, env, CONFIG_DEFAULTS))

\* The connection kind was rewritten for a CAN adapter.
MadeGeneric(cfg, expected, k) ==
    /\ k = "connection"
    /\ cfg.connection = W("generic")
    /\ expected.connection \in {W("can-usb-com"), W("can")}

SameAsOverBuiltins ==
    /\ \A k \in Keys : config[k] = OverBuiltins[k] \/ MadeGeneric(config, OverBuiltins, k)
    /\ config.canJ1939 = CONFIG_DEFAULTS.canJ1939

\* C16: with --default the effective configuration is the one the command
\* line and the environment give over the built-in defaults, whatever the
\* persisted file holds.
C16_DefaultSkipsFile ==
    (TopLevelDone /\ ~SaveFailed /\ Truthy(argv.opt.default)) => SameAsOverBuiltins

C16_Witness ==
    /\ TopLevelDone
    /\ Truthy(argv.opt.default)
    /\ FileUsable
    /\ argv.opt.canid = Num(12)
    /\ config.canid = Num(12)
    /\ config.unit = Num(1)
    /\ config.port = CONFIG_DEFAULTS.port

\* The run is a dispatch of a known action over a connection kind the
\* program opens, and --save is not given.
StartsConnection ==
    /\ ~OtherModeRequested
    /\ ~Truthy(argv.opt.save)
    /\ At(argv.pos, 0) \in KnownActions
    /\ config.connection \in {W("serial"), W("websocket"), W("ble"), W("generic")}

\* C17: with a persisted file that is absent or does not parse the
\* effective configuration is the one over the built-in defaults, and the
\* top-level code has not ended the process.
C17_UnusableFileIsNotFatal ==
    (TopLevelDone /\ ~SaveFailed /\ ~FileUsable) =>
        /\ SameAsOverBuiltins
        /\ StartsConnection => pc = "running"

C17_Witness ==
    /\ TopLevelDone
    /\ file.state = "corrupt"
    /\ env.port = W("COM7")
    /\ config.port = W("COM7")
    /\ config.unit = Num(1)
    /\ pc = "running"

\* C19: the CSV lines written are the completions without error when
\* --out=csv is given, and none otherwise.
C19_OneCsvLinePerSuccess ==
    csvLines = IF argv.opt.out = W("csv") THEN nOk ELSE 0

C19_Witness ==
    /\ argv.opt.out = W("csv")
    /\ nDone = 3
    /\ nOk = 2
    /\ csvLines = 2
    /\ last.h = "output"
    /\ last.err

DecimalDigits == {"0", "1", "2", "3", "4", "5", "6", "7", "8", "9"}

\* 0x followed by hex digits.
IsHexLiteral(v) ==
    /\ v.t = "str"
    /\ Len(v.s) >= 3
    /\ v.s[1] = "0"
    /\ v.s[2] = "x"
    /\ \A i \in 3..Len(v.s) : v.s[i] \in AddressDigits

\* Decimal digits, or a number.
IsDecimalLiteral(v) ==
    \/ v.t = "num"
    \/ v.t = "str" /\ v.s # <<>> /\ \A i \in 1..Len(v.s) : v.s[i] \in DecimalDigits

\* The number a literal stands for.
LiteralValue(v) ==
    CASE v.t = "num" -> v.n
      [] IsHexLiteral(v) -> DigitsValue(SubSeq(v.s, 3, Len(v.s)), 16, 0)
      [] OTHER -> DigitsValue(v.s, 10, 0)

IsLiteral(v) == IsHexLiteral(v) \/ IsDecimalLiteral(v)

\* A plain byte, or value:count with a byte and a count of 1..65535.
IsByteLiteral(v) == IsLiteral(v) /\ LiteralValue(v) \in 0..255

IsRunToken(v) ==
    /\ v.t = "str"
    /\ HasColon(v)
    /\ Len(Split(v.s, <<>>)) = 2
    /\ IsByteLiteral(Str(Split(v.s, <<>>)[1]))
    /\ IsLiteral(Str(Split(v.s, <<>>)[2]))
    /\ LiteralValue(Str(Split(v.s, <<>>)[2])) \in 1..65535

\* The bytes a token contributes.
BytesOfToken(v) ==
    IF IsRunToken(v)
    THEN [j \in 1..LiteralValue(Str(Split(v.s, <<>>)[2])) |->
             LiteralValue(Str(Split(v.s, <<>>)[1]))]
    ELSE <<LiteralValue(v)>>

RECURSIVE BytesOfTokens(_)
BytesOfTokens(args) ==
    IF args = <<>> THEN <<>> ELSE BytesOfToken(Head(args)) \o BytesOfTokens(Tail(args))

\* C18: argsToByteBuf on plain bytes and value:count runs returns what the
\* tokens contribute, in the order of the tokens: a plain byte itself, a run
\* count times its value.
C18_BytesInOrder ==
    (/\ last.h = "argsToByteBuf"
     /\ \A i \in 1..Len(argv.pos) : IsByteLiteral(argv.pos[i]) \/ IsRunToken(argv.pos[i]))
        => (lastCall.kind = "call" /\ lastCall.buf = BytesOfTokens(argv.pos))

C18_Witness ==
    /\ last.h = "argsToByteBuf"
    /\ argv.pos = <<Str(<<"0", "x", "4", "1", ":", "3">>), Str(<<"0", "x", "F", "F">>)>>
    /\ lastCall.buf = <<65, 65, 65, 255>>

\* C20: parseNumber returns the default for undefined, the hexadecimal
\* value of a token with a 0x prefix and the decimal value of a decimal one.
C20_ParseNumber ==
    last.h = "parseNumber" =>
        /\ At(argv.pos, 0) = Undef => lastCall.a1 = lastCall.a2
        /\ IsLiteral(At(argv.pos, 0)) => lastCall.a1 = Num(LiteralValue(At(argv.pos, 0)))

C20_Witness ==
    /\ last.h = "parseNumber"
    /\ At(argv.pos, 0) = Str(<<"0", "x", "1", "A">>)
    /\ lastCall.a2 = Num(0)
    /\ lastCall.a1 = Num(26)

\* C21: however many connected notifications the master emits, the start
\* time is recorded once, when the first arrives and before any operation,
\* and the dispatch the notification triggers is run once.
C21_ConnectedOnce ==
    /\ startTime = IF nConnected > 0 THEN 1 ELSE 0
    /\ nCalls > 0 => startTime = 1
    /\ ~LoopRequested(argv.opt) => nCalls <= 1

C21_Witness ==
    /\ nConnected = 2
    /\ startTime = 1
    /\ nCalls = 1
    /\ inflight = 1
    /\ last.h = "connected"

\* C22: an operation is invoked only after a connected notification, the
\* notification is handled only after the master was created, and the
\* master is created only after the connection object was built.
C22_ConnectedBeforeDispatch ==
    /\ nCalls > 0 => (nConnected > 0 /\ startTime > 0)
    /\ nConnected > 0 => nMasters > 0
    /\ nMasters > 0 => port.kind # "none"

C22_Witness ==
    /\ nCalls = 1
    /\ nConnected = 1
    /\ nMasters = 1
    /\ port.kind = "ble"
    /\ port.st = "open"

\* C23: at most one master is created in a process, whatever the connection
\* kind and the notifications of the Bluetooth controller.
C23_OneMaster == nMasters <= 1

C23_Witness ==
    /\ port.kind = "ble"
    /\ nMasters = 1
    /\ last.h = "stateChange"
    /\ ble.hw = "poweredOn"
    /\ master = "created"

\* C24: the completion callback invokes no operation itself: in loop mode,
\* after a completion without error, the next dispatch is queued and the
\* process goes on.
C24_NextDispatchQueued ==
    [][nDone' = nDone + 1 =>
          /\ nCalls' = nCalls
          /\ inflight' = inflight - 1
          /\ (LoopRequested(argv.opt) /\ nOk' = nOk + 1) =>
                 (immediates' = immediates + 1 /\ pc' = "running")]_vars

C24_Witness ==
    /\ LoopRequested(argv.opt)
    /\ last.h = "output"
    /\ ~last.err
    /\ immediates = 1
    /\ inflight = 0
    /\ nCalls = nDone
    /\ pc = "running"

\* The handlers that end the process through exit(code).
ExitCallers == {"output", "open", "connected", "doAction"}

\* C25: a process ended by exit(code) has the code it was given: 1 for an
\* error and 0 for a completion without one; the master was released when
\* there was one, and with no master yet the code is the given one as well.
C25_ExitKeepsCode ==
    pc = "exited" =>
        /\ last.h = "output" => exitCode = IF last.err THEN 1 ELSE 0
        /\ last.h \in ExitCallers \ {"output"} => exitCode = 1
        /\ last.h \in ExitCallers => master = "destroyed"
        /\ (last.h = "top" /\ last.err) => (exitCode = 1 /\ master = "none")

C25_Witness ==
    /\ pc = "exited"
    /\ last.h = "top"
    /\ last.err
    /\ exitCode = 1
    /\ master = "none"

\* C26: a process that was interrupted after its master was created has
\* released the master.
C26_InterruptReleases == pc = "killed" => master # "created"

\* C27: in a dispatch over Bluetooth, when the controller has just reported
\* poweredOn and no peripheral was bound yet, the scan is running.
C27_ScanWhenPoweredOn ==
    (/\ ~OtherModeRequested
     /\ port.kind = "ble"
     /\ last.h = "stateChange"
     /\ ble.hw = "poweredOn"
     /\ nMasters = 0) => ble.scanning

\* The connection kind the top-level code arrives at is a CAN adapter.
CanKindResolved ==
    MacRule(argv.opt, Layered).connection \in {W("can-usb-com"), W("can")}

\* C28: when the top-level code has run a dispatch over can-usb-com or can,
\* the adapter has the resolved rate and node address, the master is
\* created and the channel is being opened.
C28_CanSetUp ==
    (/\ TopLevelDone
     /\ ~SaveFailed
     /\ ~OtherModeRequested
     /\ ActionKnown(argv.pos)
     /\ CanKindResolved) =>
        /\ master = "created"
        /\ nMasters = 1
        /\ port.st = "opening"
        /\ port.rate = Layered.canrate
        /\ port.addr = Layered.canid

\* C29: a master is only ever created with connection kind serial, websocket
\* or generic, and over Bluetooth with transport ip.
C29_RewriteBeforeMaster ==
    nMasters > 0 =>
        /\ config.connection \in {W("serial"), W("websocket"), W("generic")}
        /\ port.kind = "ble" => config.transport = W("ip")

C29_Witness ==
    /\ master = "created"
    /\ port.kind = "can-usb-com"
    /\ config.connection = W("generic")
    /\ last.h = "top"

\* C30: no step taken once a master exists changes the configuration.
C30_ConfigFrozen == [][nMasters > 0 => config' = config]_vars

C30_Witness ==
    /\ nMasters = 1
    /\ LoopRequested(argv.opt)
    /\ last.h = "output"
    /\ nCalls >= 2
    /\ config.connection = W("generic")

\* C31: a step of a logging listener leaves the lifecycle as it is: it
\* invokes no operation, queues no loop iteration, completes nothing and
\* does not end the process.
C31_TapsChangeNothing ==
    [][last'.h = "tap" =>
          UNCHANGED <<pc, exitCode, config, conn, mast, disp>>]_vars

C31_Witness ==
    /\ last.h = "tap"
    /\ pc = "running"
    /\ nCalls = 1
    /\ inflight = 1
    /\ master = "created"

\* The two parts of a value:count token.
RunParts(v) == Split(v.s, <<>>)

HasTwoParts(v) == v.t = "str" /\ CharsHaveColon(v.s) /\ Len(RunParts(v)) = 2

\* The part is no number, or a number that is not in S.
PartOutside(chars, S) ==
    \/ chars = <<>>
    \/ chars[1] \notin DecimalDigits
    \/ IsLiteral(Str(chars)) /\ LiteralValue(Str(chars)) \notin S

\* value:count with a value that is no byte or a count that is not in
\* 1..65535.
IsDroppedRun(v) ==
    /\ HasTwoParts(v)
    /\ PartOutside(RunParts(v)[1], 0..255) \/ PartOutside(RunParts(v)[2], 1..65535)

RECURSIVE BytesKept(_)
BytesKept(args) ==
    IF args = <<>> THEN <<>>
    ELSE (IF IsDroppedRun(Head(args)) THEN <<>> ELSE BytesOfToken(Head(args)))
             \o BytesKept(Tail(args))

\* C32: a value:count token whose value is no byte or whose count is not in
\* 1..65535 adds no bytes and does not end the process: argsToByteBuf returns
\* the bytes of the other tokens, in their order.
C32_BadRunDropped ==
    (/\ last.h = "argsToByteBuf"
     /\ \E i \in 1..Len(argv.pos) : IsDroppedRun(argv.pos[i])
     /\ \A i \in 1..Len(argv.pos) :
           IsByteLiteral(argv.pos[i]) \/ IsRunToken(argv.pos[i]) \/ IsDroppedRun(argv.pos[i]))
        => (lastCall.kind = "call" /\ lastCall.buf = BytesKept(argv.pos))

C32_Witness ==
    /\ last.h = "argsToByteBuf"
    /\ argv.pos = <<Str(<<"3", "0", "0", ":", "2">>), Str(<<"0", "x", "F", "F">>)>>
    /\ lastCall.kind = "call"
    /\ lastCall.buf = <<255>>

\* value:count with a word and a count of 1..65535.
IsWordRun(v) ==
    /\ HasTwoParts(v)
    /\ IsLiteral(Str(RunParts(v)[1]))
    /\ LiteralValue(Str(RunParts(v)[1])) \in 0..65535
    /\ IsLiteral(Str(RunParts(v)[2]))
    /\ LiteralValue(Str(RunParts(v)[2])) \in 1..65535

\* The words a token of write holding stands for.
WordsOfToken(v) ==
    IF IsWordRun(v)
    THEN [j \in 1..LiteralValue(Str(RunParts(v)[2])) |-> LiteralValue(Str(RunParts(v)[1]))]
    ELSE <<LiteralValue(v)>>

RECURSIVE WordsOfTokens(_)
WordsOfTokens(args) ==
    IF args = <<>> THEN <<>> ELSE WordsOfToken(Head(args)) \o WordsOfTokens(Tail(args))

\* C33: write holding with words and value:count runs of words writes what
\* the tokens stand for, a run being count times its word.
C33_WordRunExpands ==
    (/\ DispatchMode
     /\ Dispatched
     /\ IsWriteHolding(argv.pos)
     /\ IsWord(At(argv.pos, 2))
     /\ \E i \in 3..(Len(argv.pos) - 1) : IsWordRun(At(argv.pos, i))
     /\ \A i \in 3..(Len(argv.pos) - 1) :
           IsWord(At(argv.pos, i)) \/ IsWordRun(At(argv.pos, i)))
        => /\ nCalls > 0
           /\ lastCall.op = "writeMultipleRegisters"
           /\ lastCall.buf = WordsOfTokens(SubSeq(argv.pos, 4, Len(argv.pos)))

\* command or generic with nothing after the action.
IdMissing(pos) == At(pos, 0) \in {W("command"), W("generic")} /\ Len(pos) = 1

\* C34: command or generic without a command id or function code is refused:
\* once doAction has run the process is gone with exit code 1 and neither
\* operation was invoked.
C34_MissingIdRejected ==
    (DispatchMode /\ Dispatched /\ IdMissing(argv.pos)) =>
        (nCalls = 0 /\ pc = "exited" /\ exitCode = 1)

\* The keys given as a bare flag on the command line.
BareKeys == {k \in Keys : \E n \in OptNames(k) : argv.opt[n] = JsTrue}

\* The command line without the bare flags of key k.
WithoutBare(opt, k) == [n \in DOMAIN opt |-> IF n \in OptNames(k) /\ opt[n] = JsTrue THEN Undef ELSE opt[n]]

\* C35: a key given on the command line as a flag without a value does not
\* override: the key has the value the command line without that flag
\* resolves to.
C35_BareFlagIgnored ==
    (TopLevelDone /\ ~SaveFailed) =>
        \A k \in BareKeys : config[k] = Resolve(WithoutBare(argv.opt, k), env, file)[k]

\* C36: when the enumeration of the ports has completed, with or without an
\* error, the process has ended with exit code 0.
C36_ListEndsWithZero ==
    last.h = "list" => (pc \in {"exited", "ended"} /\ exitCode = 0)

\* The first word of the command line is none of the four actions.
ActionUnrecognized ==
    At(argv.pos, 0) \notin {W("read"), W("write"), W("command"), W("generic")}

\* C37: a run of the dispatch branch with an unrecognized action builds no
\* connection object, creates no master and invokes nothing; when the
\* top-level code has run the process is gone with exit code 1.
C37_UnknownActionBuildsNothing ==
    (DispatchMode /\ ActionUnrecognized) =>
        /\ port = NoPort
        /\ master = "none"
        /\ nMasters = 0
        /\ nCalls = 0
        /\ pc # "start" => (exitCode = 1 /\ (pc = "exited" \/ SaveFailed))

C37_Witness ==
    /\ DispatchMode
    /\ ActionUnrecognized
    /\ argv.opt.connection = W("can-usb-com")
    /\ pc = "exited"
    /\ exitCode = 1
    /\ port = NoPort
    /\ nMasters = 0

\* C38: with --loop, once doAction has run the process never ends with exit
\* code 0: after a completion without error it goes on, and it ends with a
\* failed completion or a refused command (exit code 1), with an exception
\* or with an interrupt.
C38_LoopNeverExitsZero ==
    (LoopRequested(argv.opt) /\ Dispatched) =>
        /\ exitCode # 0
        /\ pc \in {"running", "exited", "crashed", "killed"}
        /\ pc = "exited" => (exitCode = 1 /\ (last.h = "output" => last.err))
        /\ (last.h = "output" /\ ~last.err) => (pc = "running" /\ immediates > 0)

C38_Witness ==
    /\ LoopRequested(argv.opt)
    /\ nOk = 2
    /\ nDone = 3
    /\ last.h = "output"
    /\ last.err
    /\ pc = "exited"
    /\ exitCode = 1

====
